---- MODULE Spec2Model ----
(***************************************************************************)
(* Liquid-handling protocols of the LabRobots repository, each modelled as *)
(* the sequential state machine its run() function executes.               *)
(*                                                                         *)
(* Every protocol has one variable holding the state of its run: the       *)
(* runtime parameters, the local variables of run(), the position in the   *)
(* script (pc) and a record of the robot commands issued so far.           *)
(*                                                                         *)
(* Volumes are integers in tenths of a microlitre (19 uL is 190).          *)
(* Times are integers in quarter minutes (0.5 min is 2).                   *)
(***************************************************************************)
EXTENDS Integers, Sequences, FiniteSets, TLC

VARIABLES dil,     \* MultiPlateDilutions_v6.py
          pool,    \* EquiMolar_pooling_v2.py
          clean,   \* Flex/SelectASizeCleaning.py
          z24,     \* Zymo_Magbead_DNA_Kit_24samples_20250828.py
          lib,     \* Flex/Zymo_LibraryPrep_TG_V2.py
          z48      \* Flex/Zymo_Magbead_DNA_Kit_48samples.py

vars == <<dil, pool, clean, z24, lib, z48>>

\* A protocol that is not the one being run.
NotRunning == [pc |-> "off"]

\* Longest CSV (data rows) the model enumerates.
MaxRows == 2

Min(a, b) == IF a <= b THEN a ELSE b

Max(a, b) == IF a >= b THEN a ELSE b

\* math.ceil(a / b) for b > 0
Ceil(a, b) == -((-a) \div b)

Indices(s) == [k \in 1..Len(s) |-> k]

(***************************************************************************)
(*                        MultiPlateDilutions_v6.py                        *)
(***************************************************************************)

WATER_TUBE_CAPACITY == 15000

WATER_BUFFER == 500

MAX_TRANSFER == 190

LARGE_DILUTION_LIMIT == 2000

WATER_FIRST_LIMIT == 50

RACK_TUBES == 24

NumSourcePlatesRange == 1..5

NumDestinationPlatesRange == 1..3

Row(sp, dp, sv, wv, iv) ==
    [source_plate |-> sp, destination_plate |-> dp, sample_volume |-> sv,
     water_volume |-> wv, initial_sample_volume |-> iv]

\* Rows that pass validation when their plates are loaded: some of each
\* class, with the class boundaries (5 uL of water, 200 uL final volume),
\* samples below, at and above 19 uL and a dilution that needs a second
\* water tube.
GoodRows ==
    { Row(1, 1, 100, 0, 500),      \* 10 + 0 uL: water after, no water at all
      Row(1, 1, 380, 3, 500),      \* 38 + 0.3 uL: water after
      Row(1, 1, 190, 40, 500),     \* 19 + 4 uL: water after
      Row(1, 1, 191, 50, 500),     \* 19.1 + 5 uL: water first
      Row(1, 1, 100, 50, 500),     \* 10 + 5 uL: water first
      Row(2, 2, 1000, 1000, 2000), \* 100 + 100 uL: water first
      Row(1, 1, 100, 1910, 500),   \* 10 + 191 uL: large dilution
      Row(1, 1, 450, 14600, 500),  \* 45 + 1460 uL: large dilution
      Row(1, 1, 100, 350000, 500)  \* 10 + 35000 uL: 24 water tubes and a
                                   \* dilution tube, one more than the rack holds
    }

\* Rows that fail one check of the validation section.
BadRows ==
    { Row(0, 1, 100, 50, 500), Row(6, 1, 100, 50, 500),
      Row(1, 0, 100, 50, 500), Row(1, 4, 100, 50, 500),
      Row(1, 1, 0, 50, 500), Row(1, 1, 100, -1, 500),
      Row(1, 1, 100, 50, 0) }

CsvRows == GoodRows \cup BadRows

CsvFiles == UNION { [1..n -> CsvRows] : n \in 0..MaxRows }

\* ---- validation section ----

\* the validation with "sample volume < 0" for "<= 0"
RowErrors_SampleZeroAccepted(row, nsp, ndp) ==
      (IF row.source_plate < 1 \/ row.source_plate > nsp THEN 1 ELSE 0)
    + (IF row.destination_plate < 1 \/ row.destination_plate > ndp THEN 1 ELSE 0)
    + (IF row.sample_volume < 0 THEN 1 ELSE 0)
    + (IF row.water_volume < 0 THEN 1 ELSE 0)
    + (IF row.initial_sample_volume <= 0 THEN 1 ELSE 0)

RowErrors(row, nsp, ndp) ==
      (IF row.source_plate < 1 \/ row.source_plate > nsp THEN 1 ELSE 0)
    + (IF row.destination_plate < 1 \/ row.destination_plate > ndp THEN 1 ELSE 0)
    + (IF row.sample_volume <= 0 THEN 1 ELSE 0)
    + (IF row.water_volume < 0 THEN 1 ELSE 0)
    + (IF row.initial_sample_volume <= 0 THEN 1 ELSE 0)

RECURSIVE SumOver(_, _, _)
SumOver(F(_), s, k) == IF k = 0 THEN 0 ELSE F(s[k]) + SumOver(F, s, k - 1)

validation_errors(wd, nsp, ndp) ==
    LET E(row) == RowErrors(row, nsp, ndp) IN SumOver(E, wd, Len(wd))

\* the categorisation with a final volume of 200 uL going to the reservoir
IsLarge_FromLimit(row) ==
    row.sample_volume + row.water_volume >= LARGE_DILUTION_LIMIT

IsLarge(row) == row.sample_volume + row.water_volume > LARGE_DILUTION_LIMIT

IsWaterFirst(row) == ~IsLarge(row) /\ row.water_volume >= WATER_FIRST_LIMIT

IsWaterAfter(row) == ~IsLarge(row) /\ row.water_volume < WATER_FIRST_LIMIT

\* The lists of rows are lists of positions in well_data, in CSV order.
wells_large_dilution(wd) == SelectSeq(Indices(wd), LAMBDA k : IsLarge(wd[k]))

wells_water_first(wd) == SelectSeq(Indices(wd), LAMBDA k : IsWaterFirst(wd[k]))

wells_water_after(wd) == SelectSeq(Indices(wd), LAMBDA k : IsWaterAfter(wd[k]))

total_water(wd) == LET W(row) == row.water_volume IN SumOver(W, wd, Len(wd))

total_water_with_buffer(wd) == total_water(wd) + WATER_BUFFER

num_water_tubes(wd) == Ceil(total_water_with_buffer(wd), WATER_TUBE_CAPACITY)

total_tubes_needed(wd) == num_water_tubes(wd) + Len(wells_large_dilution(wd))

\* the tip calculation with one tip for a water-after row
total_tips_needed_OnePerWaterAfter(wd) ==
      (IF Len(wells_large_dilution(wd)) > 0
          THEN 1 + Len(wells_large_dilution(wd)) ELSE 0)
    + (IF Len(wells_water_first(wd)) > 0
          THEN 1 + Len(wells_water_first(wd)) ELSE 0)
    + Len(wells_water_after(wd))

total_tips_needed(wd) ==
      (IF Len(wells_large_dilution(wd)) > 0
          THEN 1 + Len(wells_large_dilution(wd)) ELSE 0)
    + (IF Len(wells_water_first(wd)) > 0
          THEN 1 + Len(wells_water_first(wd)) ELSE 0)
    + Len(wells_water_after(wd)) * 2

\* ---- sample splitting ----

num_transfers(sample_vol) ==
    IF sample_vol > MAX_TRANSFER THEN Ceil(sample_vol, MAX_TRANSFER) ELSE 1

\* the splitting with the last aspiration taking what one full aspiration
\* leaves
sample_transfer_vol_RemainderOfOne(sample_vol, i) ==
    IF sample_vol > MAX_TRANSFER
       THEN IF i = num_transfers(sample_vol) - 1
               THEN sample_vol - MAX_TRANSFER
               ELSE MAX_TRANSFER
       ELSE sample_vol

\* volume of the i-th aspiration of a sample, i counted from 0
sample_transfer_vol(sample_vol, i) ==
    IF sample_vol > MAX_TRANSFER
       THEN IF i = num_transfers(sample_vol) - 1
               THEN sample_vol - i * MAX_TRANSFER
               ELSE MAX_TRANSFER
       ELSE sample_vol

\* ---- tube rack and liquid movements ----

RackRows == <<"A", "B", "C", "D">>

\* lines 184-187: names of the 24 rack positions, column by column
well_names_column_order ==
    [p \in 0..(RACK_TUBES - 1) |-> <<RackRows[(p % 4) + 1], (p \div 4) + 1>>]

\* A place liquid is taken from or put into: a position of the tube rack, or
\* the source or destination well of the k-th row of the CSV.
RackTube(p) == [labware |-> "rack", index |-> p]

SourceWell(k) == [labware |-> "source", index |-> k]

DestWell(k) == [labware |-> "destination", index |-> k]

\* the large dilutions prepared from the first position of the rack on
reservoir_tube_FromRackStart(d, idx) == RackTube(idx)

\* line 155 and lines 316-317, 422-423: tube of the idx-th large dilution,
\* idx counted from 0
reservoir_tube(d, idx) == RackTube(d.num_water_tubes + idx)

\* line 280
water_wells(d) == [t \in 0..(d.num_water_tubes - 1) |-> RackTube(t)]

\* an aspirate with its dispense, as it is recorded in the log of a run
Moved(op, k, vol, from, to) ==
    [op |-> op, row |-> k, vol |-> vol, from |-> from, to |-> to]

Mixed(k, at) == [op |-> "mix", row |-> k, at |-> at]

\* lines 475-490: the three transfers that bring 50 uL to the destination
DestinationTransfers == <<190, 190, 120>>

\* ---- state of a run ----

\* water_per_tube is total_water_with_buffer / num_water_tubes; it and the
\* quantities the water loops compare with it (water_vol_remaining,
\* water_remaining_in_current_tube, transfer_vol, aspirated) are kept
\* multiplied by num_water_tubes, so that the division is exact.
DilStart(nsp, ndp, wd) ==
    [pc |-> "validate",
     num_source_plates |-> nsp,
     num_destination_plates |-> ndp,
     well_data |-> wd,
     raised |-> "none",
     num_water_tubes |-> 0,
     water_per_tube |-> 0,
     total_tips_needed |-> 0,
     labware_loaded |-> 0,
     instrument_loaded |-> FALSE,
     pick_up_tip_calls |-> 0,
     drop_tip_calls |-> 0,
     aspirate_calls |-> 0,
     dispense_calls |-> 0,
     mix_calls |-> 0,
     has_tip |-> FALSE,
     idx |-> 1,
     i |-> 0,
     current_water_tube_index |-> 0,
     water_remaining_in_current_tube |-> 0,
     water_vol_remaining |-> 0,
     aspirated |-> <<>>,
     water_tube_names |-> <<>>,
     dilution_tube_names |-> <<>>,
     loaded |-> <<>>,
     log |-> <<>>,
     report |-> <<>>]

DilInit ==
    /\ \E nsp \in NumSourcePlatesRange, ndp \in NumDestinationPlatesRange,
          wd \in CsvFiles : dil = DilStart(nsp, ndp, wd)
    /\ pool = NotRunning
    /\ clean = NotRunning
    /\ z24 = NotRunning
    /\ lib = NotRunning
    /\ z48 = NotRunning

LargeRows == wells_large_dilution(dil.well_data)

FirstRows == wells_water_first(dil.well_data)

AfterRows == wells_water_after(dil.well_data)

\* the row the current loop is at
LargeRow == dil.well_data[LargeRows[dil.idx]]

FirstRow == dil.well_data[FirstRows[dil.idx]]

AfterRow == dil.well_data[AfterRows[dil.idx]]

MIN_TUBE_VOLUME == 10

\* lines 73-163: validation, classification, water tubes, rack capacity
Validate ==
    /\ dil.pc = "validate"
    /\ IF validation_errors(dil.well_data, dil.num_source_plates,
                            dil.num_destination_plates) > 0
          THEN dil' = [dil EXCEPT !.pc = "error", !.raised = "ValueError"]
          ELSE IF total_tubes_needed(dil.well_data) > RACK_TUBES
                  THEN dil' = [dil EXCEPT !.pc = "error", !.raised = "ValueError",
                                 !.num_water_tubes = num_water_tubes(dil.well_data)]
                  ELSE dil' = [dil EXCEPT !.pc = "setup",
                                 !.num_water_tubes = num_water_tubes(dil.well_data)]
    /\ UNCHANGED <<pool, clean, z24, lib, z48>>

\* lines 165-296: labware, tip calculation, pipette, water tubes
Setup ==
    /\ dil.pc = "setup"
    /\ dil' = [dil EXCEPT
         !.pc = "step1",
         !.labware_loaded = 1 + dil.num_source_plates
                              + dil.num_destination_plates + 2,
         !.instrument_loaded = TRUE,
         !.total_tips_needed = total_tips_needed(dil.well_data),
         !.water_per_tube = total_water_with_buffer(dil.well_data),
         !.water_tube_names =
             IF dil.num_water_tubes > 1
                THEN [t \in 1..dil.num_water_tubes |->
                        well_names_column_order[t - 1]]
                ELSE <<well_names_column_order[0]>>,
         !.dilution_tube_names =
             [j \in 1..Len(LargeRows) |->
                well_names_column_order[
                    reservoir_tube(dil, j - 1).index]],
         !.loaded = [t \in 0..(dil.num_water_tubes - 1) |->
                       total_water_with_buffer(dil.well_data)],
         !.aspirated = [t \in 0..(dil.num_water_tubes - 1) |-> 0]]
    /\ UNCHANGED <<pool, clean, z24, lib, z48>>

\* the water loop taking 19 uL, or what the tube holds, whatever the row
\* still needs
WaterTransfer_IgnoresRemaining(d, mix_last, k, target) ==
    LET n == d.num_water_tubes
        switch == d.water_remaining_in_current_tube < MIN_TUBE_VOLUME * n
        tube == IF switch THEN d.current_water_tube_index + 1
                          ELSE d.current_water_tube_index
        in_tube == IF switch THEN d.water_per_tube
                             ELSE d.water_remaining_in_current_tube
        transfer_vol == Min(in_tube, MAX_TRANSFER * n)
        last == mix_last /\ d.water_vol_remaining - transfer_vol <= 0
    IN  IF switch /\ tube >= n
           THEN [d EXCEPT !.pc = "error", !.raised = "ValueError",
                          !.current_water_tube_index = tube]
           ELSE [d EXCEPT
                   !.current_water_tube_index = tube,
                   !.aspirated[tube] = @ + transfer_vol,
                   !.aspirate_calls = @ + (IF last THEN 2 ELSE 1),
                   !.dispense_calls = @ + (IF last THEN 2 ELSE 1),
                   !.mix_calls = @ + (IF last THEN 1 ELSE 0),
                   !.water_vol_remaining = @ - transfer_vol,
                   !.water_remaining_in_current_tube = in_tube - transfer_vol,
                   !.log = @ \o <<Moved("water", k, transfer_vol,
                                         water_wells(d)[tube], target)>>
                             \o (IF last THEN <<Mixed(k, target)>> ELSE <<>>)]

\* One pass of a water-splitting loop (lines 328-351, 378-402, 645-676) for a
\* row of the given class; mix_last is the mixing step 6 does on the last
\* transfer of a row.
WaterTransfer(d, mix_last, k, target) ==
    LET n == d.num_water_tubes
        switch == d.water_remaining_in_current_tube < MIN_TUBE_VOLUME * n
        tube == IF switch THEN d.current_water_tube_index + 1
                          ELSE d.current_water_tube_index
        in_tube == IF switch THEN d.water_per_tube
                             ELSE d.water_remaining_in_current_tube
        transfer_vol == Min(Min(d.water_vol_remaining, in_tube), MAX_TRANSFER * n)
        last == mix_last /\ d.water_vol_remaining - transfer_vol <= 0
    IN  IF switch /\ tube >= n
           THEN [d EXCEPT !.pc = "error", !.raised = "ValueError",
                          !.current_water_tube_index = tube]
           ELSE [d EXCEPT
                   !.current_water_tube_index = tube,
                   !.aspirated[tube] = @ + transfer_vol,
                   !.aspirate_calls = @ + (IF last THEN 2 ELSE 1),
                   !.dispense_calls = @ + (IF last THEN 2 ELSE 1),
                   !.mix_calls = @ + (IF last THEN 1 ELSE 0),
                   !.water_vol_remaining = @ - transfer_vol,
                   !.water_remaining_in_current_tube = in_tube - transfer_vol,
                   !.log = @ \o <<Moved("water", k, transfer_vol,
                                         water_wells(d)[tube], target)>>
                             \o (IF last THEN <<Mixed(k, target)>> ELSE <<>>)]

\* water volume of a row, as the loops hold it
Scaled(d, vol) == vol * d.num_water_tubes

\* lines 301-311 and the first row of the loop at 314-326
Step1Begin ==
    /\ dil.pc = "step1"
    /\ IF Len(LargeRows) = 0
          THEN dil' = [dil EXCEPT !.pc = "step2"]
          ELSE dil' = [dil EXCEPT
                 !.pc = "step1_water",
                 !.pick_up_tip_calls = @ + 1,
                 !.has_tip = TRUE,
                 !.current_water_tube_index = 0,
                 !.water_remaining_in_current_tube = dil.water_per_tube,
                 !.idx = 1,
                 !.water_vol_remaining =
                     Scaled(dil, dil.well_data[LargeRows[1]].water_volume)]
    /\ UNCHANGED <<pool, clean, z24, lib, z48>>

\* lines 328-351
Step1Water ==
    /\ dil.pc = "step1_water"
    /\ dil.water_vol_remaining > 0
    /\ dil' = WaterTransfer(dil, FALSE, LargeRows[dil.idx],
                             reservoir_tube(dil, dil.idx - 1))
    /\ UNCHANGED <<pool, clean, z24, lib, z48>>

\* lines 314-326 for the next row, or 353-355 after the last
Step1NextRow ==
    /\ dil.pc = "step1_water"
    /\ dil.water_vol_remaining <= 0
    /\ IF dil.idx < Len(LargeRows)
          THEN dil' = [dil EXCEPT
                 !.idx = @ + 1,
                 !.water_vol_remaining =
                     Scaled(dil, dil.well_data[LargeRows[dil.idx + 1]].water_volume)]
          ELSE dil' = [dil EXCEPT !.pc = "step2", !.idx = 1,
                         !.drop_tip_calls = @ + 1, !.has_tip = FALSE]
    /\ UNCHANGED <<pool, clean, z24, lib, z48>>

\* lines 360-376
Step2Begin ==
    /\ dil.pc = "step2"
    /\ IF Len(FirstRows) = 0
          THEN dil' = [dil EXCEPT !.pc = "step3", !.idx = 1]
          ELSE dil' = [dil EXCEPT
                 !.pc = "step2_water",
                 !.pick_up_tip_calls = @ + 1,
                 !.has_tip = TRUE,
                 !.current_water_tube_index = 0,
                 !.water_remaining_in_current_tube = dil.water_per_tube,
                 !.idx = 1,
                 !.water_vol_remaining =
                     Scaled(dil, dil.well_data[FirstRows[1]].water_volume)]
    /\ UNCHANGED <<pool, clean, z24, lib, z48>>

\* lines 378-402
Step2Water ==
    /\ dil.pc = "step2_water"
    /\ dil.water_vol_remaining > 0
    /\ dil' = WaterTransfer(dil, FALSE, FirstRows[dil.idx],
                             DestWell(FirstRows[dil.idx]))
    /\ UNCHANGED <<pool, clean, z24, lib, z48>>

\* lines 372-376 for the next row, or 404-406 after the last
Step2NextRow ==
    /\ dil.pc = "step2_water"
    /\ dil.water_vol_remaining <= 0
    /\ IF dil.idx < Len(FirstRows)
          THEN dil' = [dil EXCEPT
                 !.idx = @ + 1,
                 !.water_vol_remaining =
                     Scaled(dil, dil.well_data[FirstRows[dil.idx + 1]].water_volume)]
          ELSE dil' = [dil EXCEPT !.pc = "step3", !.idx = 1,
                         !.drop_tip_calls = @ + 1, !.has_tip = FALSE]
    /\ UNCHANGED <<pool, clean, z24, lib, z48>>

\* One pass of a sample-splitting loop (lines 439-470, 521-560, 585-617):
\* the mix before the first aspiration, the aspiration and its dispense, and
\* the mixing after the last one (mix_after: 0 in step 5, a mix in step 3, a
\* mix in the split branch of step 4 and a mix with an aspirate and a
\* dispense in its other branch).
SampleTransfer(d, sample_vol, mix_after, extra, k, target) ==
    LET last == d.i = num_transfers(sample_vol) - 1 IN
    [d EXCEPT
       !.i = @ + 1,
       !.log = @ \o (IF d.i = 0 THEN <<Mixed(k, SourceWell(k))>> ELSE <<>>)
                 \o <<Moved("sample", k, sample_transfer_vol(sample_vol, d.i),
                             SourceWell(k), target)>>
                 \o (IF last /\ mix_after > 0
                        THEN <<Mixed(k, target)>> ELSE <<>>),
       !.mix_calls = @ + (IF d.i = 0 THEN 1 ELSE 0)
                       + (IF last THEN mix_after ELSE 0),
       !.aspirate_calls = @ + 1 + (IF last THEN extra ELSE 0),
       !.dispense_calls = @ + 1 + (IF last THEN extra ELSE 0)]

\* lines 411-432: next large dilution, or the end of step 3
Step3PickUp ==
    /\ dil.pc = "step3"
    /\ ~dil.has_tip
    /\ IF dil.idx > Len(LargeRows)
          THEN dil' = [dil EXCEPT !.pc = "step4", !.idx = 1]
          ELSE dil' = [dil EXCEPT !.pick_up_tip_calls = @ + 1,
                                  !.has_tip = TRUE, !.i = 0]
    /\ UNCHANGED <<pool, clean, z24, lib, z48>>

\* step 3 with no mixing in the reservoir tube after the sample is added
Step3Sample_NoMixInTube ==
    /\ dil.pc = "step3"
    /\ dil.has_tip
    /\ dil.i < num_transfers(LargeRow.sample_volume)
    /\ dil' = SampleTransfer(dil, LargeRow.sample_volume, 0, 0,
                              LargeRows[dil.idx],
                              reservoir_tube(dil, dil.idx - 1))
    /\ UNCHANGED <<pool, clean, z24, lib, z48>>

\* lines 434-470
Step3Sample ==
    /\ dil.pc = "step3"
    /\ dil.has_tip
    /\ dil.i < num_transfers(LargeRow.sample_volume)
    /\ dil' = SampleTransfer(dil, LargeRow.sample_volume, 1, 0,
                              LargeRows[dil.idx],
                              reservoir_tube(dil, dil.idx - 1))
    /\ UNCHANGED <<pool, clean, z24, lib, z48>>

\* lines 472-494: 19 + 19 + 12 uL to the destination well, drop the tip
Step3ToDestination ==
    /\ dil.pc = "step3"
    /\ dil.has_tip
    /\ dil.i >= num_transfers(LargeRow.sample_volume)
    /\ dil' = [dil EXCEPT
         !.aspirate_calls = @ + Len(DestinationTransfers),
         !.dispense_calls = @ + Len(DestinationTransfers),
         !.log = @ \o [j \in 1..Len(DestinationTransfers) |->
                         Moved("to_destination", LargeRows[dil.idx],
                               DestinationTransfers[j],
                               reservoir_tube(dil, dil.idx - 1),
                               DestWell(LargeRows[dil.idx]))],
         !.drop_tip_calls = @ + 1, !.has_tip = FALSE,
         !.idx = @ + 1]
    /\ UNCHANGED <<pool, clean, z24, lib, z48>>

\* lines 501-518
Step4PickUp ==
    /\ dil.pc = "step4"
    /\ ~dil.has_tip
    /\ IF dil.idx > Len(FirstRows)
          THEN dil' = [dil EXCEPT !.pc = "step5", !.idx = 1]
          ELSE dil' = [dil EXCEPT !.pick_up_tip_calls = @ + 1,
                                  !.has_tip = TRUE, !.i = 0]
    /\ UNCHANGED <<pool, clean, z24, lib, z48>>

\* lines 520-560
Step4Sample ==
    /\ dil.pc = "step4"
    /\ dil.has_tip
    /\ dil.i < num_transfers(FirstRow.sample_volume)
    /\ dil' = SampleTransfer(dil, FirstRow.sample_volume, 1,
                 IF FirstRow.sample_volume > MAX_TRANSFER THEN 0 ELSE 1,
                 FirstRows[dil.idx], DestWell(FirstRows[dil.idx]))
    /\ UNCHANGED <<pool, clean, z24, lib, z48>>

\* line 562
Step4DropTip ==
    /\ dil.pc = "step4"
    /\ dil.has_tip
    /\ dil.i >= num_transfers(FirstRow.sample_volume)
    /\ dil' = [dil EXCEPT !.drop_tip_calls = @ + 1, !.has_tip = FALSE,
                          !.idx = @ + 1]
    /\ UNCHANGED <<pool, clean, z24, lib, z48>>

\* lines 567-582
Step5PickUp ==
    /\ dil.pc = "step5"
    /\ ~dil.has_tip
    /\ IF dil.idx > Len(AfterRows)
          THEN dil' = [dil EXCEPT !.pc = "step6", !.idx = 1]
          ELSE dil' = [dil EXCEPT !.pick_up_tip_calls = @ + 1,
                                  !.has_tip = TRUE, !.i = 0]
    /\ UNCHANGED <<pool, clean, z24, lib, z48>>

\* lines 584-617
Step5Sample ==
    /\ dil.pc = "step5"
    /\ dil.has_tip
    /\ dil.i < num_transfers(AfterRow.sample_volume)
    /\ dil' = SampleTransfer(dil, AfterRow.sample_volume, 0, 0,
                              AfterRows[dil.idx], DestWell(AfterRows[dil.idx]))
    /\ UNCHANGED <<pool, clean, z24, lib, z48>>

\* line 619
Step5DropTip ==
    /\ dil.pc = "step5"
    /\ dil.has_tip
    /\ dil.i >= num_transfers(AfterRow.sample_volume)
    /\ dil' = [dil EXCEPT !.drop_tip_calls = @ + 1, !.has_tip = FALSE,
                          !.idx = @ + 1]
    /\ UNCHANGED <<pool, clean, z24, lib, z48>>

\* lines 624-643: the tracking starts again before the first water-after
\* row; next row, or the end of the run (683-693)
Step6PickUp ==
    /\ dil.pc = "step6"
    /\ ~dil.has_tip
    /\ IF dil.idx > Len(AfterRows)
          THEN dil' = [dil EXCEPT
                 !.pc = "complete",
                 !.report = [total |-> Len(dil.well_data),
                             water_first |-> Len(FirstRows),
                             water_after |-> Len(AfterRows),
                             large |-> Len(LargeRows)]]
          ELSE dil' = [dil EXCEPT
                 !.pick_up_tip_calls = @ + 1,
                 !.has_tip = TRUE,
                 !.current_water_tube_index =
                     IF dil.idx = 1 THEN 0 ELSE @,
                 !.water_remaining_in_current_tube =
                     IF dil.idx = 1 THEN dil.water_per_tube ELSE @,
                 !.water_vol_remaining = Scaled(dil, AfterRow.water_volume)]
    /\ UNCHANGED <<pool, clean, z24, lib, z48>>

\* lines 645-676
Step6Water ==
    /\ dil.pc = "step6"
    /\ dil.has_tip
    /\ dil.water_vol_remaining > 0
    /\ dil' = WaterTransfer(dil, TRUE, AfterRows[dil.idx],
                             DestWell(AfterRows[dil.idx]))
    /\ UNCHANGED <<pool, clean, z24, lib, z48>>

\* line 678
Step6DropTip ==
    /\ dil.pc = "step6"
    /\ dil.has_tip
    /\ dil.water_vol_remaining <= 0
    /\ dil' = [dil EXCEPT !.drop_tip_calls = @ + 1, !.has_tip = FALSE,
                          !.idx = @ + 1]
    /\ UNCHANGED <<pool, clean, z24, lib, z48>>

DilNext ==
    \/ Validate \/ Setup
    \/ Step1Begin \/ Step1Water \/ Step1NextRow
    \/ Step2Begin \/ Step2Water \/ Step2NextRow
    \/ Step3PickUp \/ Step3Sample \/ Step3ToDestination
    \/ Step4PickUp \/ Step4Sample \/ Step4DropTip
    \/ Step5PickUp \/ Step5Sample \/ Step5DropTip
    \/ Step6PickUp \/ Step6Water \/ Step6DropTip

SpecDil == DilInit /\ [][DilNext]_vars

\* ---- properties of MultiPlateDilutions ----

\* what the validation section is to reject, as the protocol documents it
HasInvalidRow ==
    \E k \in 1..Len(dil.well_data) :
       LET row == dil.well_data[k] IN
          \/ row.source_plate \notin 1..dil.num_source_plates
          \/ row.destination_plate \notin 1..dil.num_destination_plates
          \/ row.sample_volume <= 0
          \/ row.water_volume < 0
          \/ row.initial_sample_volume <= 0

NothingDone ==
    /\ dil.labware_loaded = 0
    /\ ~dil.instrument_loaded
    /\ dil.pick_up_tip_calls = 0
    /\ dil.aspirate_calls = 0
    /\ dil.dispense_calls = 0

\* C1: a CSV with an invalid row makes run raise ValueError before any
\* labware or instrument is loaded and before any pipette command.
C1_InvalidCsvRaisesBeforeLoading ==
    (HasInvalidRow /\ dil.pc # "validate") =>
        (dil.pc = "error" /\ dil.raised = "ValueError" /\ NothingDone)

C1_Witness ==
    /\ HasInvalidRow
    /\ dil.pc = "error"
    /\ Len(dil.well_data) = 2
    /\ dil.well_data[2].sample_volume = 0

\* C2: the tip count reported before pipetting is the number of pick_up_tip
\* calls of the whole run.
C2_TipsNeededEqualsPickUps ==
    /\ dil.pc \notin {"validate", "setup", "error"}
          => dil.pick_up_tip_calls <= dil.total_tips_needed
    /\ dil.pc = "complete" => dil.pick_up_tip_calls = dil.total_tips_needed

C2_Witness ==
    /\ dil.pc = "complete"
    /\ Len(LargeRows) > 0
    /\ Len(AfterRows) > 0
    /\ dil.pick_up_tip_calls = 4

\* C10: the volume aspirated from a water tube over the whole run never
\* exceeds the volume loaded into it.
C10_TubeNeverOverdrawn ==
    \A t \in DOMAIN dil.aspirated : dil.aspirated[t] <= dil.water_per_tube

\* the movements of one kind recorded for the k-th row of the CSV
MovesOf(op, k) == SelectSeq(dil.log, LAMBDA e : e.op = op /\ e.row = k)

VolumeOf(moves) == LET V(e) == e.vol IN SumOver(V, moves, Len(moves))

\* C11: the sample of a row is aspirated in ceil(sample_volume / 19) parts
\* when it exceeds 19 uL and in one part otherwise; every part is above 0 and
\* at most 19 uL, every part but the last is 19 uL, and at the end of the run
\* the parts add up to the sample volume of the row.
C11_SampleSplitIsExact ==
    \A k \in 1..Len(dil.well_data) :
       LET sample == dil.well_data[k].sample_volume
           parts == MovesOf("sample", k)
           count == IF sample > MAX_TRANSFER
                       THEN Ceil(sample, MAX_TRANSFER) ELSE 1
       IN  /\ Len(parts) <= count
           /\ \A j \in 1..Len(parts) :
                 /\ parts[j].vol > 0
                 /\ parts[j].vol <= MAX_TRANSFER
                 /\ j < count => parts[j].vol = MAX_TRANSFER
           /\ dil.pc = "complete" =>
                 /\ Len(parts) = count
                 /\ VolumeOf(parts) = sample

C11_Witness ==
    /\ dil.pc = "complete"
    /\ \E k \in 1..Len(dil.well_data) :
          /\ dil.well_data[k].sample_volume = 1000
          /\ Len(MovesOf("sample", k)) = 6
          /\ MovesOf("sample", k)[6].vol = 50
    /\ \E k \in 1..Len(dil.well_data) :
          /\ dil.well_data[k].sample_volume = 190
          /\ Len(MovesOf("sample", k)) = 1

\* the tube of the rack a large dilution is prepared in: after the water
\* tubes, in the order of the large dilutions in the CSV
TubeOfRow(k) ==
    RackTube(dil.num_water_tubes
               + Cardinality({j \in 1..(k - 1) : IsLarge(dil.well_data[j])}))

WaterTarget(k) ==
    IF IsLarge(dil.well_data[k]) THEN TubeOfRow(k) ELSE DestWell(k)

\* C12: the water of a row reaches the target of the row (its reservoir tube
\* for a large dilution, its destination well otherwise) in transfers above
\* 0 and of at most 19 uL each, which add up to the water volume of the row at
\* the end of the run; a row with no water gets no transfer, and the loop
\* never stops a run for lack of water tubes.
C12_WaterSplitIsExact ==
    /\ dil.pc = "error" => dil.labware_loaded = 0
    /\ \A k \in 1..Len(dil.well_data) :
          LET water == dil.well_data[k].water_volume
              moves == MovesOf("water", k)
          IN  /\ \A j \in 1..Len(moves) :
                    /\ moves[j].vol > 0
                    /\ moves[j].vol <= Scaled(dil, MAX_TRANSFER)
                    /\ moves[j].to = WaterTarget(k)
              /\ VolumeOf(moves) <= Scaled(dil, water)
              /\ water = 0 => Len(moves) = 0
              /\ dil.pc = "complete" => VolumeOf(moves) = Scaled(dil, water)

C12_Witness ==
    /\ dil.pc = "complete"
    /\ dil.num_water_tubes = 2
    /\ \E k \in 1..Len(dil.well_data) :
          /\ dil.well_data[k].water_volume = 14600
          /\ \E j \in 1..Len(MovesOf("water", k)) :
                MovesOf("water", k)[j].from = RackTube(1)
    /\ \E k \in 1..Len(dil.well_data) :
          /\ dil.well_data[k].water_volume = 0
          /\ Len(MovesOf("water", k)) = 0

\* where in the log the movements of one kind of the k-th row are
Positions(op, k) ==
    {a \in DOMAIN dil.log : dil.log[a].op = op /\ dil.log[a].row = k}

MixesInTube(k) ==
    {a \in DOMAIN dil.log : /\ dil.log[a].op = "mix"
                            /\ dil.log[a].row = k
                            /\ dil.log[a].at = TubeOfRow(k)}

AllBefore(A, B) == \A a \in A, b \in B : a < b

\* C13: the liquids of a row arrive in the documented order.  Water first
\* (water >= 5 uL): all the water is in the destination well before any
\* sample.  Water after (water < 5 uL): all the sample is in the destination
\* well before any water.  Large dilution: all the water is in the reservoir
\* tube before any sample, and the transfers to the destination well come
\* after the whole sample and a mixing in that tube.
C13_LiquidsInDocumentedOrder ==
    \A k \in 1..Len(dil.well_data) :
       LET row == dil.well_data[k]
           W == Positions("water", k)
           S == Positions("sample", k)
           T == Positions("to_destination", k)
           water_done ==
               VolumeOf(MovesOf("water", k)) = Scaled(dil, row.water_volume)
           sample_done ==
               VolumeOf(MovesOf("sample", k)) = row.sample_volume
       IN  /\ \A a \in S : dil.log[a].to = WaterTarget(k)
           /\ (IsWaterFirst(row) \/ IsLarge(row)) =>
                 /\ AllBefore(W, S)
                 /\ S # {} => water_done
           /\ IsWaterAfter(row) =>
                 /\ AllBefore(S, W)
                 /\ W # {} => sample_done
           /\ ~IsLarge(row) => T = {}
           /\ (IsLarge(row) /\ T # {}) =>
                 /\ sample_done
                 /\ \A a \in T : /\ dil.log[a].from = TubeOfRow(k)
                                 /\ dil.log[a].to = DestWell(k)
                 /\ \E m \in MixesInTube(k) :
                       AllBefore(S, {m}) /\ AllBefore({m}, T)
           /\ (IsLarge(row) /\ dil.pc = "complete") =>
                 Cardinality(T) = Len(DestinationTransfers)

C13_Witness ==
    /\ dil.pc = "complete"
    /\ \E k \in 1..Len(dil.well_data) :
          /\ IsLarge(dil.well_data[k])
          /\ Cardinality(Positions("to_destination", k)) = 3
          /\ Cardinality(Positions("water", k)) > 10
    /\ \E k \in 1..Len(dil.well_data) :
          /\ IsWaterAfter(dil.well_data[k])
          /\ Cardinality(Positions("sample", k)) = 2
          /\ Cardinality(Positions("water", k)) = 1

\* the 24 positions of the rack, column by column
ColumnFirstNames ==
    << <<"A", 1>>, <<"B", 1>>, <<"C", 1>>, <<"D", 1>>,
       <<"A", 2>>, <<"B", 2>>, <<"C", 2>>, <<"D", 2>>,
       <<"A", 3>>, <<"B", 3>>, <<"C", 3>>, <<"D", 3>>,
       <<"A", 4>>, <<"B", 4>>, <<"C", 4>>, <<"D", 4>>,
       <<"A", 5>>, <<"B", 5>>, <<"C", 5>>, <<"D", 5>>,
       <<"A", 6>>, <<"B", 6>>, <<"C", 6>>, <<"D", 6>> >>

WaterOfCsv ==
    LET W(row) == row.water_volume
    IN  SumOver(W, dil.well_data, Len(dil.well_data))

LargeCount ==
    Cardinality({k \in 1..Len(dil.well_data) : IsLarge(dil.well_data[k])})

\* the rack positions the movements of the k-th row use
RackPositionsOf(k) ==
    { dil.log[a].to.index :
        a \in {b \in Positions("water", k) \cup Positions("sample", k) :
                 dil.log[b].to.labware = "rack"} }
    \cup { dil.log[a].from.index : a \in Positions("to_destination", k) }

WaterPositions ==
    { dil.log[a].from.index :
        a \in {b \in DOMAIN dil.log : dil.log[b].op = "water"} }

\* C14: for a validated CSV, num_water_tubes is ceil((total water + 50) /
\* 1500), at least 1, and no water tube is loaded with more than 1500 uL; the
\* water tubes are the first num_water_tubes positions of the rack taken
\* column by column (A1, B1, C1, D1, A2, ...), the k-th large dilution is at
\* position num_water_tubes + k, these positions are distinct, none is a
\* water tube and all are among the 24; when the tubes needed exceed 24 the
\* run raises ValueError before any labware is loaded.
C14_TubeAllocation ==
    LET n == dil.num_water_tubes
        valid == ~HasInvalidRow /\ dil.pc # "validate"
        rank(k) == Cardinality({j \in 1..(k - 1) : IsLarge(dil.well_data[j])})
    IN  /\ valid =>
              /\ n >= 1
              /\ (n - 1) * WATER_TUBE_CAPACITY < WaterOfCsv + WATER_BUFFER
              /\ WaterOfCsv + WATER_BUFFER <= n * WATER_TUBE_CAPACITY
        /\ (valid /\ n + LargeCount > RACK_TUBES) =>
              (dil.pc = "error" /\ dil.raised = "ValueError" /\ NothingDone)
        /\ (valid /\ n + LargeCount <= RACK_TUBES) => dil.pc # "error"
        /\ dil.pc \notin {"validate", "setup", "error"} =>
              /\ DOMAIN dil.loaded = 0..(n - 1)
              /\ \A t \in DOMAIN dil.loaded :
                    dil.loaded[t] <= n * WATER_TUBE_CAPACITY
              /\ dil.water_tube_names = SubSeq(ColumnFirstNames, 1, n)
              /\ dil.dilution_tube_names =
                    SubSeq(ColumnFirstNames, n + 1, n + LargeCount)
              /\ WaterPositions \subseteq 0..(n - 1)
              /\ \A k \in 1..Len(dil.well_data) :
                    /\ RackPositionsOf(k) \subseteq {n + rank(k)}
                    /\ IsLarge(dil.well_data[k]) =>
                          /\ n + rank(k) \in n..(RACK_TUBES - 1)
                          /\ \A j \in 1..Len(dil.well_data) :
                                (j # k /\ IsLarge(dil.well_data[j]))
                                   => n + rank(j) # n + rank(k)
                    /\ (IsLarge(dil.well_data[k]) /\ dil.pc = "complete")
                          => RackPositionsOf(k) = {n + rank(k)}

C14_Witness ==
    /\ dil.pc = "complete"
    /\ dil.num_water_tubes = 2
    /\ LargeCount = 2
    /\ dil.dilution_tube_names = << <<"C", 1>>, <<"D", 1>> >>
    /\ RackPositionsOf(2) = {3}

C14_WitnessRackExceeded ==
    /\ dil.pc = "error"
    /\ ~HasInvalidRow
    /\ dil.num_water_tubes + LargeCount > RACK_TUBES

Range(s) == {s[j] : j \in DOMAIN s}

\* C15: each row of a validated CSV is in exactly one of the three lists the
\* run works through: the large dilutions iff sample + water > 200 uL, else
\* the water-first rows iff water >= 5 uL, else the water-after rows; the
\* three lists together have as many rows as the CSV, which is what the run
\* reports at its end.
C15_ThreeClassesPartitionRows ==
    (~HasInvalidRow /\ dil.pc # "validate") =>
       LET large == Range(LargeRows)
           first == Range(FirstRows)
           after == Range(AfterRows)
       IN  /\ \A k \in 1..Len(dil.well_data) :
                 LET row == dil.well_data[k]
                     final == row.sample_volume + row.water_volume
                 IN  /\ k \in large <=> final > LARGE_DILUTION_LIMIT
                     /\ k \in first <=> /\ final <= LARGE_DILUTION_LIMIT
                                        /\ row.water_volume >= WATER_FIRST_LIMIT
                     /\ k \in after <=> /\ final <= LARGE_DILUTION_LIMIT
                                        /\ row.water_volume < WATER_FIRST_LIMIT
                     /\ Cardinality({c \in {large, first, after} : k \in c}) = 1
           /\ Len(LargeRows) = Cardinality(large)
           /\ Len(FirstRows) = Cardinality(first)
           /\ Len(AfterRows) = Cardinality(after)
           /\ Len(LargeRows) + Len(FirstRows) + Len(AfterRows)
                 = Len(dil.well_data)
           /\ dil.pc = "complete" =>
                 /\ dil.report.total = Len(dil.well_data)
                 /\ dil.report.large + dil.report.water_first
                       + dil.report.water_after = dil.report.total
                 /\ \A k \in 1..Len(dil.well_data) :
                       Positions("to_destination", k) # {} <=> k \in large

C15_Witness ==
    /\ dil.pc = "complete"
    /\ dil.report.total = 2
    /\ dil.report.water_first = 2
    /\ \E k \in 1..Len(dil.well_data) :
          dil.well_data[k].sample_volume + dil.well_data[k].water_volume
             = LARGE_DILUTION_LIMIT
    /\ \E k \in 1..Len(dil.well_data) :
          dil.well_data[k].water_volume = WATER_FIRST_LIMIT

(***************************************************************************)
(*                         EquiMolar_pooling_v2.py                         *)
(***************************************************************************)

\* Longest pooling CSV (data rows) the model enumerates.
MaxPoolRows == 3

\* A CSV cell is text: a sequence of characters.
DigitValue(c) ==
    CASE c = "0" -> 0 [] c = "1" -> 1 [] c = "2" -> 2 [] c = "3" -> 3
      [] c = "4" -> 4 [] c = "5" -> 5 [] c = "6" -> 6 [] c = "7" -> 7
      [] c = "8" -> 8 [] c = "9" -> 9

RECURSIVE DigitsValue(_, _)
\* the number the first n characters of text spell
DigitsValue(text, n) ==
    IF n = 0 THEN 0 ELSE 10 * DigitsValue(text, n - 1) + DigitValue(text[n])

\* position of the decimal point, Len(text) + 1 when there is none
PointAt(text) ==
    IF \E k \in 1..Len(text) : text[k] = "."
       THEN CHOOSE k \in 1..Len(text) : text[k] = "."
       ELSE Len(text) + 1

\* float(text), in tenths, for text with at most one decimal
float(text) ==
    LET dot == PointAt(text) IN
       10 * DigitsValue(text, dot - 1)
       + (IF dot < Len(text) THEN DigitValue(text[dot + 1]) ELSE 0)

VolumeCells ==
    { <<"2">>, <<"1", "0">>, <<"9", ".", "5">>, <<"1", "0", ".", "0">> }

WellCells == {"A1", "B1"}

\* the first row of the file
HeaderRow == [well |-> "Well", volume |-> <<"V", "o", "l", "u", "m", "e">>]

\* a file: the header row, then up to MaxPoolRows data rows
PoolCsvFiles ==
    { <<HeaderRow>> \o rows :
        rows \in UNION { [1..n -> [well : WellCells, volume : VolumeCells]] :
                           n \in 0..MaxPoolRows } }

RECURSIVE InsertDescending(_, _)
\* row placed after the rows of sorted whose volume is not smaller
InsertDescending(sorted, row) ==
    IF sorted = <<>> THEN <<row>>
    ELSE IF float(Head(sorted).volume) >= float(row.volume)
            THEN <<Head(sorted)>> \o InsertDescending(Tail(sorted), row)
            ELSE <<row>> \o sorted

RECURSIVE SortDescending(_, _)
\* list.sort(key=float(row[1]), reverse=True) of the first n rows: stable
SortDescending(rows, n) ==
    IF n = 0 THEN <<>>
    ELSE InsertDescending(SortDescending(rows, n - 1), rows[n])

\* the rows left as the CSV has them
transfer_data_Unsorted(csv) == Tail(csv)

\* lines 30-33: the rows after the header, sorted
transfer_data(csv) == SortDescending(Tail(csv), Len(csv) - 1)

PoolStart(csv) ==
    [pc |-> "start",
     csv |-> csv,
     transfer_data |-> <<>>,
     row |-> 1,
     has_tip |-> FALSE,
     labware_loaded |-> 0,
     pooling_tube |-> "",
     log |-> <<>>,
     reported |-> -1]

PoolInit ==
    /\ \E csv \in PoolCsvFiles : pool = PoolStart(csv)
    /\ dil = NotRunning
    /\ clean = NotRunning
    /\ z24 = NotRunning
    /\ lib = NotRunning
    /\ z48 = NotRunning

\* a pipette command as the log of a run records it; to is the well a
\* transfer dispenses into
Command(op, well, volume, to) ==
    [op |-> op, well |-> well, volume |-> volume, to |-> to]

\* lines 24-56: parse, sort, load labware and liquids
PoolSetup ==
    /\ pool.pc = "start"
    /\ pool' = [pool EXCEPT !.pc = "loop",
                            !.transfer_data = transfer_data(pool.csv),
                            !.labware_loaded = 3,
                            !.pooling_tube = "A1"]
    /\ UNCHANGED <<dil, clean, z24, lib, z48>>

\* lines 59-66
PoolPickUpTip ==
    /\ pool.pc = "loop"
    /\ pool.row <= Len(pool.transfer_data)
    /\ pool' = [pool EXCEPT
         !.pc = "mix",
         !.has_tip = TRUE,
         !.log = Append(@, Command("pick_up_tip", "", 0, ""))]
    /\ UNCHANGED <<dil, clean, z24, lib, z48>>

\* line 69
PoolMix ==
    /\ pool.pc = "mix"
    /\ pool' = [pool EXCEPT
         !.pc = "transfer",
         !.log = Append(@, Command("mix", pool.transfer_data[pool.row].well,
                                    150, ""))]
    /\ UNCHANGED <<dil, clean, z24, lib, z48>>

\* the transfer taking the well of the first row of transfer_data
PoolTransfer_FromFirstWell ==
    /\ pool.pc = "transfer"
    /\ pool' = [pool EXCEPT
         !.pc = "drop",
         !.log = Append(@, Command("transfer",
                                    pool.transfer_data[1].well,
                                    float(pool.transfer_data[pool.row].volume),
                                    pool.pooling_tube))]
    /\ UNCHANGED <<dil, clean, z24, lib, z48>>

\* lines 72-77
PoolTransfer ==
    /\ pool.pc = "transfer"
    /\ pool' = [pool EXCEPT
         !.pc = "drop",
         !.log = Append(@, Command("transfer",
                                    pool.transfer_data[pool.row].well,
                                    float(pool.transfer_data[pool.row].volume),
                                    pool.pooling_tube))]
    /\ UNCHANGED <<dil, clean, z24, lib, z48>>

\* line 80
PoolDropTip ==
    /\ pool.pc = "drop"
    /\ pool' = [pool EXCEPT
         !.pc = "loop",
         !.has_tip = FALSE,
         !.row = @ + 1,
         !.log = Append(@, Command("drop_tip", "", 0, ""))]
    /\ UNCHANGED <<dil, clean, z24, lib, z48>>

\* line 82
PoolComplete ==
    /\ pool.pc = "loop"
    /\ pool.row > Len(pool.transfer_data)
    /\ pool' = [pool EXCEPT !.pc = "complete",
                            !.reported = Len(pool.transfer_data)]
    /\ UNCHANGED <<dil, clean, z24, lib, z48>>

PoolNext ==
    \/ PoolSetup \/ PoolPickUpTip \/ PoolMix \/ PoolTransfer
    \/ PoolDropTip \/ PoolComplete

SpecPool == PoolInit /\ [][PoolNext]_vars

\* ---- properties of EquiMolar_pooling ----

\* the transfers into the pooling tube, in the order they were done
PoolTransfers == SelectSeq(pool.log, LAMBDA c : c.op = "transfer")

\* C3: of two consecutive transfers the earlier has the larger or the same
\* volume, whatever the order of the CSV rows.
C3_TransfersLargestFirst ==
    \A k \in 1..(Len(PoolTransfers) - 1) :
       PoolTransfers[k].volume >= PoolTransfers[k + 1].volume

C3_Witness ==
    /\ pool.pc = "complete"
    /\ Len(pool.csv) = 4
    /\ pool.csv[2].volume = <<"2">>
    /\ pool.csv[3].volume = <<"1", "0">>
    /\ pool.csv[4].volume = <<"9", ".", "5">>
    /\ Len(PoolTransfers) = 3
    /\ PoolTransfers[1].volume = 100
    /\ PoolTransfers[3].volume = 20

\* what the volume cells of the model spell, in tenths of a uL
CellTenths(cell) ==
    CASE cell = <<"2">> -> 20
      [] cell = <<"1", "0">> -> 100
      [] cell = <<"9", ".", "5">> -> 95
      [] cell = <<"1", "0", ".", "0">> -> 100

\* the rows of the file after the header
DataRows == SubSeq(pool.csv, 2, Len(pool.csv))

RowsWith(well, tenths) ==
    {k \in DOMAIN DataRows : /\ DataRows[k].well = well
                             /\ CellTenths(DataRows[k].volume) = tenths}

TransfersWith(well, tenths) ==
    {k \in DOMAIN PoolTransfers : /\ PoolTransfers[k].well = well
                                  /\ PoolTransfers[k].volume = tenths}

PoolCycle == <<"pick_up_tip", "mix", "transfer", "drop_tip">>

\* C16: every row after the header gets one transfer of its volume from its
\* well into tube A1 of the tube block; the commands of a run are, row after
\* row, pick_up_tip, mix in the well, transfer from that well, drop_tip, so a
\* tip serves one row and no tip is picked up while one is held; the number
\* of rows reported at the end is the number of transfers done.
C16_OneTransferPerRow ==
    /\ \A p \in DOMAIN pool.log :
          /\ pool.log[p].op = PoolCycle[((p - 1) % 4) + 1]
          /\ pool.log[p].op = "transfer" =>
                /\ pool.log[p].to = "A1"
                /\ pool.log[p].well = pool.log[p - 1].well
    /\ pool.has_tip <=> Len(pool.log) % 4 # 0
    /\ \A well \in WellCells, tenths \in {20, 95, 100} :
          /\ Cardinality(TransfersWith(well, tenths))
                <= Cardinality(RowsWith(well, tenths))
          /\ pool.pc = "complete" =>
                Cardinality(TransfersWith(well, tenths))
                   = Cardinality(RowsWith(well, tenths))
    /\ pool.pc = "complete" =>
          /\ Len(PoolTransfers) = Len(DataRows)
          /\ pool.reported = Len(PoolTransfers)
          /\ Len(pool.log) = 4 * Len(DataRows)

C16_Witness ==
    /\ pool.pc = "complete"
    /\ Len(DataRows) = 3
    /\ DataRows[1] = DataRows[2]
    /\ DataRows[3].well # DataRows[1].well
    /\ pool.reported = 3
    /\ Cardinality(TransfersWith(DataRows[1].well,
                                 CellTenths(DataRows[1].volume))) = 2

(***************************************************************************)
(*                      Flex/SelectASizeCleaning.py                        *)
(***************************************************************************)

NUM_COLUMNS == 12

\* runtime parameters: minutes (in quarters), volume (in tenths of uL)
MagbeadIncubationTimes == {4, 20, 120}

BeadMixingVolumes == {500, 2000, 8000}

ROOM_TEMP_INCUBATION == 20

DRY_RUN_DELAY == 2

CleanStart(t, v, dry) ==
    [pc |-> "setup",
     magbead_incubation_time |-> t,
     bead_mixing_volume |-> v,
     DryRun |-> dry,
     col_idx |-> 0,
     pip50_tip |-> FALSE,
     pip1000_tip |-> FALSE,
     sample_plate_on |-> "none",
     delays |-> <<>>,
     pauses |-> 0,
     bead_mixing_passes |-> 0,
     bead_aspirations |-> 0,
     mixed_since_aspiration |-> FALSE,
     pip50_aspirations |-> 0,
     tips_dropped |-> 0]

CleanInit ==
    /\ \E t \in MagbeadIncubationTimes, v \in BeadMixingVolumes, dry \in BOOLEAN : clean = CleanStart(t, v, dry)
    /\ dil = NotRunning
    /\ pool = NotRunning
    /\ z24 = NotRunning
    /\ lib = NotRunning
    /\ z48 = NotRunning

\* one pass of "for col_idx in range(12)": the loop goes on, or the script
\* goes to the step after it
NextColumn(c, after) ==
    IF c.col_idx < NUM_COLUMNS - 1
       THEN [c EXCEPT !.col_idx = @ + 1]
       ELSE [c EXCEPT !.col_idx = 0, !.pc = after]

\* protocol.delay(minutes = normal if not DryRun else 0.5)
Delay(c, normal) ==
    [c EXCEPT !.delays = Append(@, IF ~c.DryRun THEN normal ELSE DRY_RUN_DELAY)]

\* lines 43-93
CleanSetup ==
    /\ clean.pc = "setup"
    /\ clean' = [clean EXCEPT !.pc = "step1", !.sample_plate_on = "temp_adapter"]
    /\ UNCHANGED <<dil, pool, z24, lib, z48>>

\* lines 133-139
Step1PickUpTips ==
    /\ clean.pc = "step1"
    /\ clean' = [clean EXCEPT !.pc = "step2_mix", !.pip1000_tip = TRUE,
                              !.pip50_tip = TRUE]
    /\ UNCHANGED <<dil, pool, z24, lib, z48>>

\* the bead reservoir mixed once, before the first column only
Step2BeadMixing_FirstColumnOnly ==
    /\ clean.pc = "step2_mix"
    /\ clean' = [clean EXCEPT
         !.pc = "step2_transfer",
         !.bead_mixing_passes = IF clean.col_idx = 0 THEN @ + 1 ELSE @,
         !.mixed_since_aspiration = clean.col_idx = 0]
    /\ UNCHANGED <<dil, pool, z24, lib, z48>>

\* lines 141-142: bead_mixing of the bead reservoir with pip1000
Step2BeadMixing ==
    /\ clean.pc = "step2_mix"
    /\ clean' = [clean EXCEPT !.pc = "step2_transfer",
                              !.bead_mixing_passes = @ + 1,
                              !.mixed_since_aspiration = TRUE]
    /\ UNCHANGED <<dil, pool, z24, lib, z48>>

\* lines 143-147: pip50 takes 26 uL of beads to the column
Step2Transfer ==
    /\ clean.pc = "step2_transfer"
    /\ clean' = [clean EXCEPT
         !.pc = IF clean.col_idx < NUM_COLUMNS - 1 THEN "step2_mix"
                                                  ELSE "step2_end",
         !.col_idx = IF clean.col_idx < NUM_COLUMNS - 1 THEN @ + 1 ELSE 0,
         !.bead_aspirations = @ + 1,
         !.pip50_aspirations = @ + 1,
         !.mixed_since_aspiration = FALSE,
         !.pip50_tip = clean.col_idx < NUM_COLUMNS - 1]
    /\ UNCHANGED <<dil, pool, z24, lib, z48>>

\* line 148
Step2ReturnMixingTip ==
    /\ clean.pc = "step2_end"
    /\ clean' = [clean EXCEPT !.pc = "step4", !.pip1000_tip = FALSE]
    /\ UNCHANGED <<dil, pool, z24, lib, z48>>

\* lines 152-155
Step4FinalMix ==
    /\ clean.pc = "step4"
    /\ clean' = NextColumn(clean, "step5")
    /\ UNCHANGED <<dil, pool, z24, lib, z48>>

\* line 159
Step5Incubate ==
    /\ clean.pc = "step5"
    /\ clean' = Delay([clean EXCEPT !.pc = "step6"], ROOM_TEMP_INCUBATION)
    /\ UNCHANGED <<dil, pool, z24, lib, z48>>

\* line 163
Step6MoveToMagnet ==
    /\ clean.pc = "step6"
    /\ clean' = [clean EXCEPT !.pc = "step7", !.sample_plate_on = "mag_block"]
    /\ UNCHANGED <<dil, pool, z24, lib, z48>>

\* line 167
Step7MagnetIncubation ==
    /\ clean.pc = "step7"
    /\ clean' = Delay([clean EXCEPT !.pc = "step8"], clean.magbead_incubation_time)
    /\ UNCHANGED <<dil, pool, z24, lib, z48>>

\* lines 171-175
Step8RemoveSupernatant ==
    /\ clean.pc = "step8"
    /\ clean' = NextColumn([clean EXCEPT !.pip50_aspirations = @ + 1,
                                         !.tips_dropped = @ + 1], "step9_mix")
    /\ UNCHANGED <<dil, pool, z24, lib, z48>>

\* lines 179-181
Step9MixWashBuffer ==
    /\ clean.pc = "step9_mix"
    /\ clean' = [clean EXCEPT !.pc = "step9"]
    /\ UNCHANGED <<dil, pool, z24, lib, z48>>

\* lines 183-188
Step9AddWashBuffer ==
    /\ clean.pc = "step9"
    /\ clean' = NextColumn([clean EXCEPT !.pip50_aspirations = @ + 1], "step10")
    /\ UNCHANGED <<dil, pool, z24, lib, z48>>

\* lines 193-197
Step10RemoveWash ==
    /\ clean.pc = "step10"
    /\ clean' = NextColumn([clean EXCEPT !.pip50_aspirations = @ + 1,
                                         !.tips_dropped = @ + 1], "step10_pause")
    /\ UNCHANGED <<dil, pool, z24, lib, z48>>

\* lines 199-200
Step10Pause ==
    /\ clean.pc = "step10_pause"
    /\ clean' = [clean EXCEPT !.pc = "step11_mix",
                              !.pauses = IF ~clean.DryRun THEN @ + 1 ELSE @]
    /\ UNCHANGED <<dil, pool, z24, lib, z48>>

\* lines 204-206
Step11MixWater ==
    /\ clean.pc = "step11_mix"
    /\ clean' = [clean EXCEPT !.pc = "step11"]
    /\ UNCHANGED <<dil, pool, z24, lib, z48>>

\* lines 208-212
Step11AddWater ==
    /\ clean.pc = "step11"
    /\ clean' = NextColumn([clean EXCEPT !.pip50_aspirations = @ + 1], "step12_move")
    /\ UNCHANGED <<dil, pool, z24, lib, z48>>

\* line 216
Step12MoveFromMagnet ==
    /\ clean.pc = "step12_move"
    /\ clean' = [clean EXCEPT !.pc = "step12", !.sample_plate_on = "temp_adapter"]
    /\ UNCHANGED <<dil, pool, z24, lib, z48>>

\* lines 217-220
Step12ElutionMix ==
    /\ clean.pc = "step12"
    /\ clean' = NextColumn(clean, "step13")
    /\ UNCHANGED <<dil, pool, z24, lib, z48>>

\* line 224
Step13Incubate ==
    /\ clean.pc = "step13"
    /\ clean' = Delay([clean EXCEPT !.pc = "step14"], ROOM_TEMP_INCUBATION)
    /\ UNCHANGED <<dil, pool, z24, lib, z48>>

\* lines 228-229
Step14MagnetSeparation ==
    /\ clean.pc = "step14"
    /\ clean' = Delay([clean EXCEPT !.pc = "step15", !.sample_plate_on = "mag_block"],
                      clean.magbead_incubation_time)
    /\ UNCHANGED <<dil, pool, z24, lib, z48>>

\* lines 233-240
Step15TransferEluate ==
    /\ clean.pc = "step15"
    /\ clean' = NextColumn([clean EXCEPT !.pip50_aspirations = @ + 1,
                                         !.tips_dropped = @ + 1], "complete")
    /\ UNCHANGED <<dil, pool, z24, lib, z48>>

CleanNext ==
    \/ CleanSetup \/ Step1PickUpTips
    \/ Step2BeadMixing \/ Step2Transfer \/ Step2ReturnMixingTip
    \/ Step4FinalMix \/ Step5Incubate \/ Step6MoveToMagnet
    \/ Step7MagnetIncubation \/ Step8RemoveSupernatant
    \/ Step9MixWashBuffer \/ Step9AddWashBuffer
    \/ Step10RemoveWash \/ Step10Pause
    \/ Step11MixWater \/ Step11AddWater
    \/ Step12MoveFromMagnet \/ Step12ElutionMix
    \/ Step13Incubate \/ Step14MagnetSeparation \/ Step15TransferEluate

SpecClean == CleanInit /\ [][CleanNext]_vars

\* ---- properties of SelectASizeCleaning ----

\* C4: a dry run issues no timed delay.
C4_DryRunSkipsAllDelays == clean.DryRun => Len(clean.delays) = 0

\* C8: every pip50 aspiration from the bead reservoir comes after a
\* bead_mixing pass done since the aspiration before it.
C8_BeadsMixedBeforeEachAspirate ==
    [][clean'.bead_aspirations = clean.bead_aspirations + 1
          => /\ clean.mixed_since_aspiration
             /\ clean.pip1000_tip]_vars

C8_Witness ==
    /\ clean.pc = "complete"
    /\ clean.bead_aspirations = NUM_COLUMNS
    /\ clean.bead_mixing_passes = NUM_COLUMNS

(***************************************************************************)
(*                     Flex/Zymo_LibraryPrep_TG_V2.py                      *)
(***************************************************************************)

POOL_WELLS == 12

MIX_REPETITIONS == 2

LibStart(dry, tc) ==
    [pc |-> "setup",
     DryRun |-> dry,
     using_thermocycler |-> tc,
     log |-> <<>>,
     lid |-> "unknown",
     sample_plate_on |-> "none",
     has_tip |-> FALSE,
     x |-> 0,
     well |-> 0]

LibInit ==
    /\ \E dry \in BOOLEAN, tc \in BOOLEAN : lib = LibStart(dry, tc)
    /\ dil = NotRunning
    /\ pool = NotRunning
    /\ clean = NotRunning
    /\ z24 = NotRunning
    /\ z48 = NotRunning

\* the thermocycler programs run in every run, dry or not
ProgramsEnabled_Always(l) == TRUE

\* "if not DryRun" (lines 115, 156, 170)
ProgramsEnabled(l) == ~l.DryRun

Issue(l, ops) == [l EXCEPT !.log = @ \o ops]

\* lines 34-80: pipette, modules (the thermocycler lid is opened), labware
LibSetup ==
    /\ lib.pc = "setup"
    /\ lib' = Issue([lib EXCEPT !.pc = "section1", !.lid = "open",
                                !.sample_plate_on = "C2"],
                    <<"tc_mod.open_lid">>)
    /\ UNCHANGED <<dil, pool, clean, z24, z48>>

\* lines 111-116
LibTemperatureOff ==
    /\ lib.pc = "section1"
    /\ lib' = Issue([lib EXCEPT !.pc = "pick_up"],
                    <<"temp_module.deactivate">>
                    \o (IF ProgramsEnabled(lib) /\ lib.using_thermocycler
                           THEN <<"tc_mod.set_lid_temperature">> ELSE <<>>))
    /\ UNCHANGED <<dil, pool, clean, z24, z48>>

\* lines 131-132
LibPickUpTips ==
    /\ lib.pc = "pick_up"
    /\ lib' = Issue([lib EXCEPT !.pc = "aspirate", !.has_tip = TRUE],
                    <<"configure_nozzle_layout", "pick_up_tip">>)
    /\ UNCHANGED <<dil, pool, clean, z24, z48>>

\* lines 133-135
LibAspirate ==
    /\ lib.pc = "aspirate"
    /\ lib' = Issue([lib EXCEPT !.pc = "dispense"],
                    <<"aspirate", "aspirate", "delay_1s">>)
    /\ UNCHANGED <<dil, pool, clean, z24, z48>>

\* line 136
LibDispense ==
    /\ lib.pc = "dispense"
    /\ lib' = Issue([lib EXCEPT !.pc = "mix", !.x = 0], <<"dispense">>)
    /\ UNCHANGED <<dil, pool, clean, z24, z48>>

\* lines 137-139
LibMix ==
    /\ lib.pc = "mix"
    /\ lib.x < MIX_REPETITIONS
    /\ lib' = Issue([lib EXCEPT !.x = @ + 1], <<"aspirate", "dispense">>)
    /\ UNCHANGED <<dil, pool, clean, z24, z48>>

\* lines 140-142
LibLastMix ==
    /\ lib.pc = "mix"
    /\ lib.x >= MIX_REPETITIONS
    /\ lib' = Issue([lib EXCEPT !.pc = "drop"],
                    <<"aspirate", "dispense", "delay_1s">>)
    /\ UNCHANGED <<dil, pool, clean, z24, z48>>

\* line 143: the master mix is in the sample plate
LibDrop ==
    /\ lib.pc = "drop"
    /\ lib' = Issue([lib EXCEPT !.pc = "pcr", !.has_tip = FALSE],
                    <<IF lib.DryRun THEN "return_tip" ELSE "drop_tip">>)
    /\ UNCHANGED <<dil, pool, clean, z24, z48>>

\* the pause taken whether or not the thermocycler is used
LibPause_Always ==
    /\ lib.pc = "pcr"
    /\ lib' = Issue([lib EXCEPT !.pc = "section2"], <<"pause">>)
    /\ UNCHANGED <<dil, pool, clean, z24, z48>>

\* lines 148-150
LibOpenLid ==
    /\ lib.pc = "pcr"
    /\ lib.using_thermocycler
    /\ lib' = Issue([lib EXCEPT !.pc = "move", !.lid = "open"],
                    <<"tc_mod.open_lid">>)
    /\ UNCHANGED <<dil, pool, clean, z24, z48>>

\* line 152
LibMoveToThermocycler ==
    /\ lib.pc = "move"
    /\ lib' = Issue([lib EXCEPT !.pc = "close", !.sample_plate_on = "tc_mod"],
                    <<"move_labware_gripper">>)
    /\ UNCHANGED <<dil, pool, clean, z24, z48>>

\* lines 153-156
LibCloseLid ==
    /\ lib.pc = "close"
    /\ lib' = Issue([lib EXCEPT !.pc = IF ProgramsEnabled(lib) THEN "profile1"
                                                              ELSE "reopen",
                                !.lid = "closed"],
                    <<"tc_mod.close_lid">>)
    /\ UNCHANGED <<dil, pool, clean, z24, z48>>

\* lines 157-160
LibProfile1 ==
    /\ lib.pc = "profile1"
    /\ lib' = Issue([lib EXCEPT !.pc = "profile2"], <<"tc_mod.execute_profile">>)
    /\ UNCHANGED <<dil, pool, clean, z24, z48>>

\* lines 161-166
LibProfile2 ==
    /\ lib.pc = "profile2"
    /\ lib' = Issue([lib EXCEPT !.pc = "hold"], <<"tc_mod.execute_profile">>)
    /\ UNCHANGED <<dil, pool, clean, z24, z48>>

\* line 167
LibSetBlockTemperature ==
    /\ lib.pc = "hold"
    /\ lib' = Issue([lib EXCEPT !.pc = "reopen"],
                    <<"tc_mod.set_block_temperature">>)
    /\ UNCHANGED <<dil, pool, clean, z24, z48>>

\* lines 169-171
LibReopenLid ==
    /\ lib.pc = "reopen"
    /\ lib' = Issue([lib EXCEPT !.pc = "section2", !.lid = "open"],
                    <<"tc_mod.open_lid">>
                    \o (IF ProgramsEnabled(lib)
                           THEN <<"tc_mod.deactivate_lid">> ELSE <<>>))
    /\ UNCHANGED <<dil, pool, clean, z24, z48>>

\* lines 172-174
LibPause ==
    /\ lib.pc = "pcr"
    /\ ~lib.using_thermocycler
    /\ lib' = Issue([lib EXCEPT !.pc = "section2"], <<"pause">>)
    /\ UNCHANGED <<dil, pool, clean, z24, z48>>

\* lines 176-184
LibPickUpColumn ==
    /\ lib.pc = "section2"
    /\ lib' = Issue([lib EXCEPT !.pc = "pool_aspirate", !.has_tip = TRUE,
                                !.well = 0],
                    <<"configure_nozzle_layout", "pick_up_tip">>)
    /\ UNCHANGED <<dil, pool, clean, z24, z48>>

\* lines 185-187
LibPoolAspirate ==
    /\ lib.pc = "pool_aspirate"
    /\ lib.well < POOL_WELLS
    /\ lib' = Issue([lib EXCEPT !.pc = "pool_dispense"],
                    <<"pool_aspirate", "delay_1s">>)
    /\ UNCHANGED <<dil, pool, clean, z24, z48>>

\* lines 188-189
LibPoolDispense ==
    /\ lib.pc = "pool_dispense"
    /\ lib' = Issue([lib EXCEPT !.pc = "pool_aspirate", !.well = @ + 1],
                    <<"pool_dispense", "blow_out">>)
    /\ UNCHANGED <<dil, pool, clean, z24, z48>>

\* lines 190-192
LibDropTip ==
    /\ lib.pc = "pool_aspirate"
    /\ lib.well >= POOL_WELLS
    /\ lib' = Issue([lib EXCEPT !.pc = "complete", !.has_tip = FALSE],
                    <<"drop_tip">>)
    /\ UNCHANGED <<dil, pool, clean, z24, z48>>

LibNext ==
    \/ LibSetup \/ LibTemperatureOff \/ LibPickUpTips \/ LibAspirate
    \/ LibDispense \/ LibMix \/ LibLastMix \/ LibDrop
    \/ LibOpenLid \/ LibMoveToThermocycler \/ LibCloseLid
    \/ LibProfile1 \/ LibProfile2 \/ LibSetBlockTemperature \/ LibReopenLid
    \/ LibPause
    \/ LibPickUpColumn \/ LibPoolAspirate \/ LibPoolDispense \/ LibDropTip

SpecLib == LibInit /\ [][LibNext]_vars

\* ---- properties of Zymo_LibraryPrep ----

Issued(op) == \E k \in 1..Len(lib.log) : lib.log[k] = op

TimesIssued(op) == Cardinality({k \in 1..Len(lib.log) : lib.log[k] = op})

\* op1 was issued, and before the first op2 (if any)
IssuedBefore(op1, op2) ==
    \E k \in 1..Len(lib.log) :
       /\ lib.log[k] = op1
       /\ \A j \in 1..k : lib.log[j] # op2

\* every op1 was issued after some op2
AllAfter(op1, op2) ==
    \A k \in 1..Len(lib.log) :
       lib.log[k] = op1 => \E j \in 1..(k - 1) : lib.log[j] = op2

TemperaturePrograms ==
    {"tc_mod.set_lid_temperature", "tc_mod.execute_profile",
     "tc_mod.set_block_temperature", "temp_module.set_temperature"}

\* C6: a dry run issues no thermocycler or temperature-module program, with
\* or without the thermocycler.
C6_DryRunSkipsTemperaturePrograms ==
    lib.DryRun => \A op \in TemperaturePrograms : ~Issued(op)

C6_Witness ==
    /\ lib.DryRun
    /\ lib.using_thermocycler
    /\ lib.pc = "complete"
    /\ Issued("tc_mod.close_lid")

\* C7: with the thermocycler the run never pauses and the plate is moved by
\* the gripper into the thermocycler before pooling; without it the run
\* pauses once, after the master mix and before pooling, the plate is never
\* moved and the lid is never closed.
C7_ThermocyclerOrPause ==
    /\ lib.using_thermocycler =>
          /\ ~Issued("pause")
          /\ Issued("pool_aspirate") =>
                /\ IssuedBefore("move_labware_gripper", "pool_aspirate")
                /\ lib.sample_plate_on = "tc_mod"
    /\ ~lib.using_thermocycler =>
          /\ TimesIssued("pause") <= 1
          /\ AllAfter("pause", "dispense")
          /\ lib.pc = "pcr" => ~Issued("pause")
          /\ Issued("pool_aspirate") => IssuedBefore("pause", "pool_aspirate")
          /\ ~Issued("move_labware_gripper")
          /\ ~Issued("tc_mod.close_lid")
          /\ lib.sample_plate_on \in {"none", "C2"}

C7_Witness ==
    /\ ~lib.using_thermocycler
    /\ lib.pc = "complete"
    /\ TimesIssued("pause") = 1
    /\ TimesIssued("pool_aspirate") = POOL_WELLS

C7_WitnessThermocycler ==
    /\ lib.using_thermocycler
    /\ lib.pc = "complete"
    /\ lib.sample_plate_on = "tc_mod"

(***************************************************************************)
(*               Zymo_Magbead_DNA_Kit_24samples_20250828.py                *)
(***************************************************************************)

\* len(np.arange(start, stop, step)): the values start, start + step, ...
\* on the near side of stop
arange_len(start, stop, step) ==
    IF step > 0 THEN Max(0, Ceil(stop - start, step))
                ELSE Max(0, Ceil(start - stop, -step))

\* np.arange(duration, -0.5): start duration, stop -0.5, step 1
countdown_len(duration) == arange_len(duration, -2, 4)

\* the countdown np.arange(duration, 0, -0.5) of the 48-sample protocol
countdown_len_Descending(duration) == arange_len(duration, 0, -2)

HALF_MINUTE == 2

\* class Timer, in quarter minutes
Timer ==
    [MAGNET_SETTLING |-> 8, MAGNET_SETTLING_EXT |-> 12, WASH |-> 4,
     SHAKER_WASH |-> 4, SHAKER_ELUTE |-> 20, BIND |-> 12, BEAD_DRY |-> 40]

\* lines 165-168: every timer is 0.25 in a dry run
timers(dry_run) == IF dry_run THEN [f \in DOMAIN Timer |-> 1] ELSE Timer

\* class ReagentVolume
TOTAL_BINDING_VOLUME == 8200

\* the volume of each of the four washes of the run (lines 602-605)
WashVolumes == <<5000, 5000, 9000, 9000>>

WASTE_LIMIT == 1850000

WASTE_BIN_COLUMNS == 18

SampleCounts == {1, 24, 48}

Z24Start(n, dry) ==
    [pc |-> "setup",
     sample_count |-> n,
     dry_run |-> dry,
     num_sample_columns |-> Ceil(n, 8),
     stage |-> 0,
     col |-> 0,
     clock |-> 0,
     latch |-> "unknown",
     shaking |-> FALSE,
     shake_since |-> 0,
     shake_duration |-> 0,
     plate_on |-> "none",
     magnet_since |-> 0,
     settle_duration |-> 0,
     shakes |-> <<>>,
     removals |-> <<>>,
     moves |-> <<>>,
     waits |-> <<>>,
     WASTE_VOL |-> 0,
     DROP_COUNT |-> 0,
     pauses |-> 0,
     has_tip |-> FALSE]

Z24Init ==
    /\ \E n \in SampleCounts, dry \in BOOLEAN : z24 = Z24Start(n, dry)
    /\ dil = NotRunning
    /\ pool = NotRunning
    /\ clean = NotRunning
    /\ lib = NotRunning
    /\ z48 = NotRunning

\* "for timer in np.arange(duration, -0.5): ctx.delay(minutes=0.5)"
Countdown(z, duration) ==
    [z EXCEPT !.clock = @ + HALF_MINUTE * countdown_len(duration)]

\* lines 327-334
transport(z, destination) ==
    [z EXCEPT !.plate_on = destination,
              !.moves = Append(@, [from |-> z.plate_on, to |-> destination,
                                   latch |-> z.latch, shaking |-> z.shaking])]

\* lines 371-375
move_to_magnet(z, duration) ==
    LET moved == [transport(z, "magblock") EXCEPT
                     !.magnet_since = z.clock, !.settle_duration = duration]
    IN  IF duration > 0 THEN Countdown(moved, duration) ELSE moved

\* lines 154-238: the plate starts on the heater-shaker, latch closed
Z24Setup ==
    /\ z24.pc = "setup"
    /\ z24' = [z24 EXCEPT !.pc = "bind", !.plate_on = "adapter",
                          !.latch = "closed"]
    /\ UNCHANGED <<dil, pool, clean, lib, z48>>

\* lines 517-519
BindPickUp ==
    /\ z24.pc = "bind"
    /\ z24' = [z24 EXCEPT !.pc = "bind_add", !.has_tip = TRUE, !.col = 0]
    /\ UNCHANGED <<dil, pool, clean, lib, z48>>

\* lines 520-529, one column
BindAddBuffer ==
    /\ z24.pc = "bind_add"
    /\ z24.col < z24.num_sample_columns
    /\ z24' = [z24 EXCEPT !.col = @ + 1]
    /\ UNCHANGED <<dil, pool, clean, lib, z48>>

\* line 530
BindReturnTips ==
    /\ z24.pc = "bind_add"
    /\ z24.col >= z24.num_sample_columns
    /\ z24' = [z24 EXCEPT !.pc = "bind_mix", !.has_tip = FALSE, !.col = 0]
    /\ UNCHANGED <<dil, pool, clean, lib, z48>>

\* lines 532-539, one column
BindMixSamples ==
    /\ z24.pc = "bind_mix"
    /\ z24.col < z24.num_sample_columns
    /\ z24' = [z24 EXCEPT !.col = @ + 1]
    /\ UNCHANGED <<dil, pool, clean, lib, z48>>

\* lines 541-544: the binding wait
BindWait ==
    /\ z24.pc = "bind_mix"
    /\ z24.col >= z24.num_sample_columns
    /\ z24' = [Countdown(z24, timers(z24.dry_run).BIND) EXCEPT
                 !.pc = "bind_magnet",
                 !.waits = Append(@, [requested |-> timers(z24.dry_run).BIND,
                                      waited |-> HALF_MINUTE
                                         * countdown_len(timers(z24.dry_run).BIND)])]
    /\ UNCHANGED <<dil, pool, clean, lib, z48>>

\* lines 546-547
BindMoveToMagnet ==
    /\ z24.pc = "bind_magnet"
    /\ z24' = [move_to_magnet([z24 EXCEPT !.latch = "open"],
                              timers(z24.dry_run).MAGNET_SETTLING_EXT)
                  EXCEPT !.pc = "supernatant"]
    /\ UNCHANGED <<dil, pool, clean, lib, z48>>

SupernatantVolume(z) ==
    IF z.stage = 0 THEN TOTAL_BINDING_VOLUME ELSE WashVolumes[z.stage]

\* lines 345-352 and 413-415: the waste is tracked, then the removal begins
RemoveSupernatantBegin ==
    /\ z24.pc = "supernatant"
    /\ LET waste == z24.WASTE_VOL + SupernatantVolume(z24) * 8 IN
       z24' = [z24 EXCEPT
          !.pc = "supernatant_col",
          !.col = 0,
          !.WASTE_VOL = IF waste >= WASTE_LIMIT THEN 0 ELSE waste,
          !.pauses = IF waste >= WASTE_LIMIT THEN @ + 1 ELSE @,
          !.removals = Append(@, [requested |-> z24.settle_duration,
                                  settled |-> z24.clock - z24.magnet_since,
                                  plate_on |-> z24.plate_on])]
    /\ UNCHANGED <<dil, pool, clean, lib, z48>>

\* lines 417-440 (and drop_tips, 362-369), one column
RemoveSupernatantColumn ==
    /\ z24.pc = "supernatant_col"
    /\ z24.col < z24.num_sample_columns
    /\ LET dispose == z24.stage = Len(WashVolumes)
           full == dispose /\ z24.DROP_COUNT + 1 >= WASTE_BIN_COLUMNS
       IN z24' = [z24 EXCEPT
             !.col = @ + 1,
             !.DROP_COUNT = IF ~dispose THEN @ ELSE IF full THEN 0 ELSE @ + 1,
             !.pauses = IF full THEN @ + 1 ELSE @]
    /\ UNCHANGED <<dil, pool, clean, lib, z48>>

\* line 442, then the next wash of lines 602-605
RemoveSupernatantEnd ==
    /\ z24.pc = "supernatant_col"
    /\ z24.col >= z24.num_sample_columns
    /\ z24' = [z24 EXCEPT
         !.pc = IF z24.stage < Len(WashVolumes) THEN "wash" ELSE "complete",
         !.stage = IF z24.stage < Len(WashVolumes) THEN @ + 1 ELSE @,
         !.col = 0]
    /\ UNCHANGED <<dil, pool, clean, lib, z48>>

\* lines 489-496
WashPickUp ==
    /\ z24.pc = "wash"
    /\ z24' = [z24 EXCEPT !.pc = "wash_add", !.has_tip = TRUE, !.col = 0]
    /\ UNCHANGED <<dil, pool, clean, lib, z48>>

\* lines 498-503, one column
WashAddBuffer ==
    /\ z24.pc = "wash_add"
    /\ z24.col < z24.num_sample_columns
    /\ z24' = [z24 EXCEPT !.col = @ + 1]
    /\ UNCHANGED <<dil, pool, clean, lib, z48>>

\* line 504
WashReturnTips ==
    /\ z24.pc = "wash_add"
    /\ z24.col >= z24.num_sample_columns
    /\ z24' = [z24 EXCEPT !.pc = "shake_mix", !.has_tip = FALSE, !.col = 0]
    /\ UNCHANGED <<dil, pool, clean, lib, z48>>

\* shake_mix, lines 393-397 with move_to=True: the plate goes to the
\* adapter, the latch closes, the shaker starts
ShakeMixStart ==
    /\ z24.pc = "shake_mix"
    /\ z24' = [transport([z24 EXCEPT !.latch = "open"], "adapter") EXCEPT
                 !.pc = "shaking",
                 !.latch = "closed",
                 !.shaking = TRUE,
                 !.shake_since = z24.clock,
                 !.shake_duration = timers(z24.dry_run).SHAKER_WASH]
    /\ UNCHANGED <<dil, pool, clean, lib, z48>>

\* shake_mix, lines 399-403: countdown, deactivate_shaker, latch opened
ShakeMixStop ==
    /\ z24.pc = "shaking"
    /\ LET waited == Countdown(z24, z24.shake_duration) IN
       z24' = [waited EXCEPT
          !.pc = "wash_magnet",
          !.shaking = FALSE,
          !.latch = "open",
          !.shakes = Append(@, [requested |-> z24.shake_duration,
                                shaken |-> waited.clock - z24.shake_since])]
    /\ UNCHANGED <<dil, pool, clean, lib, z48>>

\* line 511
WashMoveToMagnet ==
    /\ z24.pc = "wash_magnet"
    /\ z24' = [move_to_magnet(z24, timers(z24.dry_run).MAGNET_SETTLING)
                  EXCEPT !.pc = "supernatant"]
    /\ UNCHANGED <<dil, pool, clean, lib, z48>>

Z24Next ==
    \/ Z24Setup
    \/ BindPickUp \/ BindAddBuffer \/ BindReturnTips \/ BindMixSamples
    \/ BindWait \/ BindMoveToMagnet
    \/ RemoveSupernatantBegin \/ RemoveSupernatantColumn \/ RemoveSupernatantEnd
    \/ WashPickUp \/ WashAddBuffer \/ WashReturnTips
    \/ ShakeMixStart \/ ShakeMixStop \/ WashMoveToMagnet

SpecZ24 == Z24Init /\ [][Z24Next]_vars

\* ---- properties of Zymo_Magbead_DNA_Kit_24samples ----

\* C5: the shaker shakes for its duration before it is deactivated, the
\* binding wait lasts its configured time, and supernatant removal begins
\* only when the plate has been on the magnetic block for the settling time.
C5_TimedStepsLastTheirDuration ==
    /\ \A k \in 1..Len(z24.shakes) :
          z24.shakes[k].shaken >= z24.shakes[k].requested
    /\ \A k \in 1..Len(z24.waits) :
          z24.waits[k].waited >= z24.waits[k].requested
    /\ \A k \in 1..Len(z24.removals) :
          z24.removals[k].settled >= z24.removals[k].requested

(***************************************************************************)
(*                 Flex/Zymo_Magbead_DNA_Kit_48samples.py                  *)
(***************************************************************************)

\* get_values (line 3): the values the run is given
Z48Values == [num_samples |-> 48, dry_run |-> FALSE, heater_shaker |-> TRUE]

WASTE_BIN_TIPS == 150

TIPS_PER_COLUMN == 8

\* the calls of the run: bind (binding, then the second binding), the three
\* washes (one in a dry run), elute
Z48Stages(dry_run) ==
    IF dry_run THEN <<"bind", "bind2", "wash", "elute">>
               ELSE <<"bind", "bind2", "wash", "wash", "wash", "elute">>

\* minutes of shaking (lines 338, 387, 447, 480), in quarter minutes
ShakeMinutes(stage, dry_run) ==
    IF dry_run THEN 1
    ELSE CASE stage = "bind" -> 40 [] stage = "bind2" -> 4
           [] stage = "wash" -> 8 [] stage = "elute" -> 20

\* start of the settling countdown (lines 356, 405, 465, 498)
SettleFrom(stage, dry_run) ==
    LET settling_time == IF dry_run THEN 1 ELSE 8
        settling_time_binding == IF dry_run THEN 1 ELSE 20
        settling_time_wash == IF dry_run THEN 1 ELSE 4
    IN  CASE stage = "bind" -> settling_time_binding + 4
          [] stage = "bind2" -> settling_time_wash + 4
          [] stage = "wash" -> settling_time_wash
          [] stage = "elute" -> settling_time

Z48Start ==
    [pc |-> "setup",
     dry_run |-> Z48Values.dry_run,
     heater_shaker |-> Z48Values.heater_shaker,
     num_cols |-> Ceil(Z48Values.num_samples, 8),
     tip1k |-> 0,
     drop_count |-> 0,
     pauses |-> 0,
     columns_since_pause |-> 0,
     tiptrack_calls |-> 0,
     has_tip |-> FALSE,
     stage |-> 1,
     col |-> 0,
     clock |-> 0,
     latch |-> "unknown",
     shaking |-> FALSE,
     plate_on |-> "none",
     moves |-> <<>>,
     heater_target |-> 0]

Z48Init ==
    /\ z48 = Z48Start
    /\ dil = NotRunning
    /\ pool = NotRunning
    /\ clean = NotRunning
    /\ z24 = NotRunning
    /\ lib = NotRunning

Z48Stage == Z48Stages(z48.dry_run)[z48.stage]

\* tiptrack without the restart of the count
tiptrack_NoRestart(z) ==
    [z EXCEPT
       !.has_tip = TRUE,
       !.tip1k = @ + TIPS_PER_COLUMN,
       !.tiptrack_calls = @ + 1,
       !.drop_count = @ + TIPS_PER_COLUMN,
       !.columns_since_pause =
           IF z.drop_count + TIPS_PER_COLUMN >= WASTE_BIN_TIPS THEN 0 ELSE @ + 1,
       !.pauses = IF z.drop_count + TIPS_PER_COLUMN >= WASTE_BIN_TIPS
                     THEN @ + 1 ELSE @]

\* lines 189-199: tiptrack(m1000, tips)
tiptrack(z) ==
    LET count == z.drop_count + TIPS_PER_COLUMN IN
    [z EXCEPT
       !.has_tip = TRUE,
       !.tip1k = @ + TIPS_PER_COLUMN,
       !.tiptrack_calls = @ + 1,
       !.drop_count = IF count >= WASTE_BIN_TIPS THEN 0 ELSE count,
       !.columns_since_pause = IF count >= WASTE_BIN_TIPS THEN 0 ELSE @ + 1,
       !.pauses = IF count >= WASTE_BIN_TIPS THEN @ + 1 ELSE @]

\* lines 30-187: the plate starts on the heater-shaker, latch closed
Z48Setup ==
    /\ z48.pc = "setup"
    /\ z48' = [z48 EXCEPT !.pc = "add", !.plate_on = "h_s_adapter",
                          !.latch = "closed"]
    /\ UNCHANGED <<dil, pool, clean, z24, lib>>

\* the places of the script that call tiptrack: once a column in bind, in
\* remove_supernatant, in the mixing of the second binding after its first
\* column and in the transfer of the eluate; once before the loop where a
\* reagent is added to all the columns
TipTrackDue ==
    \/ z48.pc = "add" /\ (Z48Stage = "bind" \/ z48.col = 0)
    \/ z48.pc = "mix" /\ z48.col > 0
    \/ z48.pc = "supernatant"
    \/ z48.pc = "eluate"

TipTrack ==
    /\ z48.pc \in {"add", "mix", "supernatant", "eluate"}
    /\ ~z48.has_tip
    /\ z48.col < z48.num_cols
    /\ TipTrackDue
    /\ z48' = tiptrack(z48)
    /\ UNCHANGED <<dil, pool, clean, z24, lib>>

\* one column of a loop that adds a reagent: lines 314-334 (bind, with its
\* own tip), 364-377, 432-442, 472-475 (one tip for the loop)
AddReagent ==
    /\ z48.pc = "add"
    /\ z48.has_tip
    /\ z48.col < z48.num_cols
    /\ z48' = [z48 EXCEPT
         !.col = @ + 1,
         !.has_tip = IF Z48Stage = "bind" THEN FALSE ELSE @]
    /\ UNCHANGED <<dil, pool, clean, z24, lib>>

\* after the loop: the tip is dropped (lines 443, 476), or kept for the
\* mixing of the second binding (line 379)
AddReagentEnd ==
    /\ z48.pc = "add"
    /\ z48.col >= z48.num_cols
    /\ z48' = [z48 EXCEPT
         !.col = 0,
         !.pc = IF Z48Stage = "bind2" THEN "mix" ELSE "shake",
         !.has_tip = IF Z48Stage = "bind2" THEN @ ELSE FALSE]
    /\ UNCHANGED <<dil, pool, clean, z24, lib>>

\* lines 379-383, one column
Bind2Mix ==
    /\ z48.pc = "mix"
    /\ z48.has_tip
    /\ z48.col < z48.num_cols
    /\ z48' = [z48 EXCEPT !.col = @ + 1, !.has_tip = FALSE]
    /\ UNCHANGED <<dil, pool, clean, z24, lib>>

Bind2MixEnd ==
    /\ z48.pc = "mix"
    /\ z48.col >= z48.num_cols
    /\ z48' = [z48 EXCEPT !.col = 0, !.pc = "shake"]
    /\ UNCHANGED <<dil, pool, clean, z24, lib>>

\* lines 336-337, 385-386, 445-446, 478-479
ShakeStart ==
    /\ z48.pc = "shake"
    /\ z48' = [z48 EXCEPT !.pc = "shaking", !.shaking = z48.heater_shaker]
    /\ UNCHANGED <<dil, pool, clean, z24, lib>>

\* lines 338-339, 387-388, 447-448, 480-481
ShakeStop ==
    /\ z48.pc = "shaking"
    /\ z48' = [z48 EXCEPT
         !.pc = "unlatch",
         !.shaking = FALSE,
         !.clock = IF z48.heater_shaker
                      THEN @ + ShakeMinutes(Z48Stage, z48.dry_run) ELSE @,
         !.pauses = IF ~z48.heater_shaker /\ ~z48.dry_run THEN @ + 1 ELSE @]
    /\ UNCHANGED <<dil, pool, clean, z24, lib>>

\* the plate moved with the latch left as it is
OpenLatch_LatchLeftClosed ==
    /\ z48.pc \in {"unlatch", "unlatch_back"}
    /\ z48' = [z48 EXCEPT
         !.pc = IF z48.pc = "unlatch" THEN "move" ELSE "move_back"]
    /\ UNCHANGED <<dil, pool, clean, z24, lib>>

\* lines 345-346, 394-395, 453-454, 487-488 and 243-244
OpenLatch ==
    /\ z48.pc \in {"unlatch", "unlatch_back"}
    /\ z48' = [z48 EXCEPT
         !.pc = IF z48.pc = "unlatch" THEN "move" ELSE "move_back",
         !.latch = IF z48.heater_shaker THEN "open" ELSE @]
    /\ UNCHANGED <<dil, pool, clean, z24, lib>>

\* lines 347-352, 396-401, 455-460, 489-494
MoveToMagnet ==
    /\ z48.pc = "move"
    /\ z48' = [z48 EXCEPT
         !.pc = "latch",
         !.plate_on = "magblock",
         !.moves = Append(@, [from |-> z48.plate_on, to |-> "magblock",
                              latch |-> z48.latch, shaking |-> z48.shaking])]
    /\ UNCHANGED <<dil, pool, clean, z24, lib>>

\* lines 245-250
MoveToHeaterShaker ==
    /\ z48.pc = "move_back"
    /\ z48' = [z48 EXCEPT
         !.pc = "latch_back",
         !.plate_on = "h_s_adapter",
         !.moves = Append(@, [from |-> z48.plate_on, to |-> "h_s_adapter",
                              latch |-> z48.latch, shaking |-> z48.shaking])]
    /\ UNCHANGED <<dil, pool, clean, z24, lib>>

\* lines 353-354, 402-403, 462-463, 495-496 and 251-252; after the last
\* wash of a run that is not dry the heater is set (lines 518-520)
CloseLatch ==
    /\ z48.pc \in {"latch", "latch_back"}
    /\ LET next == Z48Stages(z48.dry_run)[z48.stage + 1] IN
       z48' = [z48 EXCEPT
          !.latch = IF z48.heater_shaker THEN "closed" ELSE @,
          !.pc = IF z48.pc = "latch" THEN "settle"
                 ELSE IF next = "elute" THEN "dry" ELSE "add",
          !.stage = IF z48.pc = "latch" THEN @ ELSE @ + 1,
          !.heater_target =
              IF z48.pc = "latch_back" /\ next = "elute"
                 /\ ~z48.dry_run /\ z48.heater_shaker THEN 55 ELSE @]
    /\ UNCHANGED <<dil, pool, clean, z24, lib>>

\* lines 356-357, 405-406, 465-466, 498-499
Settle ==
    /\ z48.pc = "settle"
    /\ z48' = [z48 EXCEPT
         !.pc = IF Z48Stage = "elute" THEN "eluate" ELSE "supernatant",
         !.col = 0,
         !.clock = @ + HALF_MINUTE
                       * countdown_len_Descending(SettleFrom(Z48Stage, z48.dry_run))]
    /\ UNCHANGED <<dil, pool, clean, z24, lib>>

\* lines 223-239, one column
RemoveSupernatant ==
    /\ z48.pc = "supernatant"
    /\ z48.has_tip
    /\ z48.col < z48.num_cols
    /\ z48' = [z48 EXCEPT !.col = @ + 1, !.has_tip = FALSE]
    /\ UNCHANGED <<dil, pool, clean, z24, lib>>

\* line 240
SupernatantRemoved ==
    /\ z48.pc = "supernatant"
    /\ z48.col >= z48.num_cols
    /\ z48' = [z48 EXCEPT !.col = 0, !.pc = "unlatch_back"]
    /\ UNCHANGED <<dil, pool, clean, z24, lib>>

\* lines 518-524: the beads dry
DryBeads ==
    /\ z48.pc = "dry"
    /\ z48' = [z48 EXCEPT
         !.pc = "add",
         !.clock = @ + HALF_MINUTE
                       * countdown_len_Descending(IF z48.dry_run THEN 2 ELSE 36)]
    /\ UNCHANGED <<dil, pool, clean, z24, lib>>

\* lines 501-508, one column
TransferEluate ==
    /\ z48.pc = "eluate"
    /\ z48.has_tip
    /\ z48.col < z48.num_cols
    /\ z48' = [z48 EXCEPT !.col = @ + 1, !.has_tip = FALSE]
    /\ UNCHANGED <<dil, pool, clean, z24, lib>>

\* lines 510 and 526-527
Z48Complete ==
    /\ z48.pc = "eluate"
    /\ z48.col >= z48.num_cols
    /\ z48' = [z48 EXCEPT !.pc = "complete", !.heater_target = 0]
    /\ UNCHANGED <<dil, pool, clean, z24, lib>>

Z48Next ==
    \/ Z48Setup \/ TipTrack
    \/ AddReagent \/ AddReagentEnd \/ Bind2Mix \/ Bind2MixEnd
    \/ ShakeStart \/ ShakeStop \/ OpenLatch \/ MoveToMagnet
    \/ MoveToHeaterShaker \/ CloseLatch \/ Settle
    \/ RemoveSupernatant \/ SupernatantRemoved \/ DryBeads
    \/ TransferEluate \/ Z48Complete

SpecZ48 == Z48Init /\ [][Z48Next]_vars

\* ---- properties of Zymo_Magbead_DNA_Kit_48samples ----

\* C9: drop_count counts the tips picked up since the last waste-bin pause;
\* it is below 150 after every tiptrack call and at most 19 columns of tips
\* are picked up between two pauses.
C9_WasteBinPause ==
    /\ z48.drop_count < WASTE_BIN_TIPS
    /\ z48.drop_count = TIPS_PER_COLUMN * z48.columns_since_pause
    /\ z48.columns_since_pause <= 19
    /\ z48.tiptrack_calls <= 19 * (z48.pauses + 1)

C9_Witness ==
    /\ z48.pauses = 2
    /\ z48.tiptrack_calls = 38
    /\ z48.drop_count = 0


(***************************************************************************)
(*          The heater-shaker in the two Zymo magbead protocols            *)
(***************************************************************************)

\* a run of either protocol
ZymoInit ==
    /\ \/ /\ \E n \in SampleCounts, dry \in BOOLEAN : z24 = Z24Start(n, dry)
          /\ z48 = NotRunning
       \/ /\ z24 = NotRunning
          /\ z48 = Z48Start
    /\ dil = NotRunning
    /\ pool = NotRunning
    /\ clean = NotRunning
    /\ lib = NotRunning

ZymoNext ==
    \/ Z24Setup
    \/ BindPickUp \/ BindAddBuffer \/ BindReturnTips \/ BindMixSamples
    \/ BindWait \/ BindMoveToMagnet
    \/ RemoveSupernatantBegin \/ RemoveSupernatantColumn \/ RemoveSupernatantEnd
    \/ WashPickUp \/ WashAddBuffer \/ WashReturnTips
    \/ ShakeMixStart \/ ShakeMixStop \/ WashMoveToMagnet
    \/ Z48Setup \/ TipTrack
    \/ AddReagent \/ AddReagentEnd \/ Bind2Mix \/ Bind2MixEnd
    \/ ShakeStart \/ ShakeStop \/ OpenLatch \/ MoveToMagnet
    \/ MoveToHeaterShaker \/ CloseLatch \/ Settle
    \/ RemoveSupernatant \/ SupernatantRemoved \/ DryBeads
    \/ TransferEluate \/ Z48Complete

SpecZymo == ZymoInit /\ [][ZymoNext]_vars

\* the heater-shaker and the plate moves of the protocol that runs
HeaterShakerOf(z, adapter) ==
    /\ z.shaking => z.latch = "closed"
    /\ \A m \in DOMAIN z.moves :
          (z.moves[m].from = adapter \/ z.moves[m].to = adapter) =>
             (z.moves[m].latch = "open" /\ ~z.moves[m].shaking)

C17_Witness24 ==
    /\ z24.pc # "off"
    /\ z24.shaking
    /\ z24.latch = "closed"
    /\ Len(z24.moves) >= 2
    /\ z24.moves[Len(z24.moves)].to = "adapter"
    /\ z24.moves[Len(z24.moves)].latch = "open"

====
